---- MODULE Spec2Model ----
(***************************************************************************)
(* The account server of swift (swift/account/server.py): the WSGI         *)
(* controller AccountController, its dispatcher __call__ and its handlers  *)
(* DELETE, PUT, HEAD, GET, POST and REPLICATE, over one account database.  *)
(* The AccountBroker, normalize_timestamp, check_float and ReplicatorRpc   *)
(* live in swift.common and are modelled at their interface.               *)
(***************************************************************************)
EXTENDS Integers, Sequences, FiniteSets, TLC

VARIABLES
    conf,       \* AccountController.__init__: mount_check, replication_server, and
                \* whether the account's name starts with auto_create_account_prefix
    db,         \* the account database behind AccountBroker(db_path)
    req,        \* the request the dispatcher handled last
    res,        \* the response it returned
    invoked,    \* the attribute __call__ invoked at line 326 ("none" if it invoked nothing)
    touched,    \* whether the handler performed an accessor / replication-engine operation
    workers     \* account PUTs in flight, one per transport worker

vars == <<conf, db, req, res, invoked, touched, workers>>

----------------------------------------------------------------------------
(* Bounds *)

\* X-Timestamp values are the decimal strings of 1..MaxTs
MaxTs == 3
\* X-Put-Timestamp / X-Delete-Timestamp are the decimal strings of
\* 9..(9 + ContainerTsSpan), a range that crosses a change of length ("9", "10")
ContainerTsSpan == 1
\* X-Object-Count / X-Bytes-Used are drawn from 0..MaxCount
MaxCount == 1
\* concurrent transport workers
NumWorkers == 2

----------------------------------------------------------------------------
(* Strings: sequences of ASCII codes *)

Missing == << >>                \* the header or parameter is absent
NonNumeric == <<97, 98>>        \* "ab"
Dot == 46
Zero == 48

IsDigit(c) == c >= 48 /\ c <= 57

RECURSIVE DecStr(_)
\* str(n) for a natural number
DecStr(n) == IF n < 10 THEN <<Zero + n>> ELSE Append(DecStr(n \div 10), Zero + (n % 10))

RECURSIVE DigitsValue(_)
DigitsValue(s) ==
    IF s = << >> THEN 0
    ELSE 10 * DigitsValue(SubSeq(s, 1, Len(s) - 1)) + (s[Len(s)] - Zero)

\* Python's str > str: lexicographic on the codes, a proper prefix is smaller
PyStrGreater(a, b) ==
    \E i \in 1..Len(a) :
        /\ \A j \in 1..(i - 1) : j <= Len(b) /\ a[j] = b[j]
        /\ (i > Len(b) \/ a[i] > b[i])

\* swift.common.constraints.check_float: float(string) succeeds
check_float(s) == s /= << >> /\ \A i \in 1..Len(s) : IsDigit(s[i])

NormIntDigits == 10
NormFracDigits == 5

RECURSIVE Zeros(_)
Zeros(n) == IF n <= 0 THEN << >> ELSE <<Zero>> \o Zeros(n - 1)

\* swift.common.utils.normalize_timestamp: "%016.05f" % float(timestamp);
\* the caller has established check_float(s) or takes the ValueError
normalize_timestamp(s) ==
    Zeros(NormIntDigits - Len(s)) \o s \o <<Dot>> \o Zeros(NormFracDigits)

\* the value the accessor reads from a timestamp string: the digits before the point
ParseTs(s) ==
    LET dots == {i \in 1..Len(s) : s[i] = Dot}
        n    == IF dots = {} THEN Len(s)
                ELSE (CHOOSE i \in dots : \A j \in dots : i <= j) - 1
    IN DigitsValue(SubSeq(s, 1, n))

EmptyFn == [k \in {} |-> 0]

Max(a, b) == IF a >= b THEN a ELSE b

----------------------------------------------------------------------------
(* The record accessor (swift.common.db.AccountBroker), at its interface *)

NoDB ==
    [exists |-> FALSE, status |-> "", created_at |-> 0, put_timestamp |-> 0,
     delete_timestamp |-> 0, metadata |-> EmptyFn, containers |-> EmptyFn]

\* os.path.exists(broker.db_file)
db_exists(d) == d.exists

\* deleted: no record, or a record whose status is Deleted (a tombstone), or one
\* whose delete_timestamp > put_timestamp
is_deleted(d) ==
    ~d.exists \/ d.status = "DELETED" \/ d.delete_timestamp > d.put_timestamp

\* the explicit status marker; raises DatabaseConnectionError when there is no record
is_status_deleted(d) == d.status = "DELETED"

\* a brand-new record at the given timestamp (the caller handles DatabaseAlreadyExists)
initialize(d, ts) ==
    [NoDB EXCEPT !.exists = TRUE, !.created_at = ParseTs(ts), !.put_timestamp = ParseTs(ts)]

\* put_timestamp advances to the max of stored and given
update_put_timestamp(d, ts) ==
    [d EXCEPT !.put_timestamp = Max(d.put_timestamp, ParseTs(ts))]

\* tombstone at the given timestamp; an equal-or-older timestamp overwrites nothing
delete_db(d, ts) ==
    IF ParseTs(ts) > d.delete_timestamp
    THEN [d EXCEPT !.delete_timestamp = ParseTs(ts), !.status = "DELETED"]
    ELSE d

\* merge: per key, the newer timestamp stays; on a tie the stored value stays
update_metadata(d, md) ==
    [d EXCEPT !.metadata =
        [k \in (DOMAIN d.metadata) \cup (DOMAIN md) |->
            IF k \in DOMAIN md
               /\ (k \notin DOMAIN d.metadata \/ ParseTs(md[k][2]) > d.metadata[k][2])
            THEN <<md[k][1], ParseTs(md[k][2])>>
            ELSE d.metadata[k]]]

\* upsert of a container row, per-field last-writer-wins at the row level
put_container(d, name, put_ts, delete_ts, object_count, bytes_used) ==
    LET new == [put_timestamp |-> ParseTs(put_ts), delete_timestamp |-> ParseTs(delete_ts),
                object_count |-> DigitsValue(object_count),
                bytes_used |-> DigitsValue(bytes_used)]
        old == d.containers[name]
        row == IF name \notin DOMAIN d.containers THEN new
               ELSE [put_timestamp |-> Max(old.put_timestamp, new.put_timestamp),
                     delete_timestamp |-> Max(old.delete_timestamp, new.delete_timestamp),
                     object_count |-> IF new.put_timestamp > old.put_timestamp
                                      THEN new.object_count ELSE old.object_count,
                     bytes_used |-> IF new.put_timestamp > old.put_timestamp
                                    THEN new.bytes_used ELSE old.bytes_used]
    IN [d EXCEPT !.containers =
            [n \in (DOMAIN d.containers) \cup {name} |->
                IF n = name THEN row ELSE d.containers[n]]]

\* HEAD without the filter "if value != ''" of line 205
visible_metadata_all(d) == [k \in DOMAIN d.metadata |-> d.metadata[k][1]]

\* broker.metadata as HEAD echoes it: the keys whose value is not ''
visible_metadata(d) ==
    [k \in {x \in DOMAIN d.metadata : d.metadata[x][1] /= ""} |-> d.metadata[k][1]]

----------------------------------------------------------------------------
(* Requests and responses *)

MetaKey == "X-Account-Meta-K"
MetaValues == {"", "a"}
ContainerName == "c1"

\* a request as the handlers read it; check_mount is what check_mount(root, drive)
\* answers while the request is handled, now is time.time()
BaseReq(m) ==
    [method |-> m, utf8 |-> TRUE, path_ok |-> TRUE, check_mount |-> TRUE,
     container |-> "", x_timestamp |-> Missing, meta |-> EmptyFn,
     x_put_timestamp |-> Missing, x_delete_timestamp |-> Missing,
     x_object_count |-> Missing, x_bytes_used |-> Missing,
     override |-> "no", now |-> 1,
     param_utf8 |-> TRUE, delimiter |-> Missing, limit |-> Missing,
     acceptable |-> TRUE, body_ok |-> TRUE, engine_status |-> 200]

Response(status) == [status |-> status, x_account_status |-> "", headers |-> EmptyFn]

\* an exception escaping the handler (KeyError, ValueError, UnboundLocalError)
Raised == Response(0)

\* what a handler leaves behind: the database, the response, and whether it
\* performed an accessor or replication-engine operation
Outcome(d, r, t) == [db |-> d, res |-> r, touched |-> t]

----------------------------------------------------------------------------
(* Handlers *)

\* _deleted_response without the is_status_deleted test of lines 74-80
deleted_response_always(d, status) ==
    [Response(status) EXCEPT !.x_account_status = "Deleted"]

\* _deleted_response: X-Account-Status: Deleted iff the record exists and carries
\* the status marker (DatabaseConnectionError: the account does not exist)
deleted_response(d, status) ==
    IF db_exists(d) /\ is_status_deleted(d)
    THEN [Response(status) EXCEPT !.x_account_status = "Deleted"]
    ELSE Response(status)

\* the handlers without the mount check (lines 93, 115, 189, 243, 268, 293)
MountFailed_never(r) == FALSE

MountFailed(r) == conf.mount_check /\ ~r.check_mount

TimestampBad(r) == r.x_timestamp = Missing \/ ~check_float(r.x_timestamp)

\* DELETE without lines 100-101: the tombstone is written without asking is_deleted
DELETE_unguarded(d, r) ==
    IF ~r.path_ok THEN Outcome(d, Response(400), FALSE)
    ELSE IF MountFailed(r) THEN Outcome(d, Response(507), FALSE)
    ELSE IF TimestampBad(r) THEN Outcome(d, Response(400), FALSE)
    ELSE LET d2 == delete_db(d, r.x_timestamp)
         IN Outcome(d2, deleted_response(d2, 204), TRUE)

DELETE(d, r) ==
    IF ~r.path_ok THEN Outcome(d, Response(400), FALSE)
    ELSE IF MountFailed(r) THEN Outcome(d, Response(507), FALSE)
    ELSE IF TimestampBad(r) THEN Outcome(d, Response(400), FALSE)
    ELSE IF is_deleted(d) THEN Outcome(d, deleted_response(d, 404), TRUE)
    ELSE LET d2 == delete_db(d, r.x_timestamp)
         IN Outcome(d2, deleted_response(d2, 204), TRUE)

\* MetadataFromHeaders stamping with time.time() instead of the request's timestamp
MetadataFromHeaders_now(r, timestamp) ==
    [k \in DOMAIN r.meta |-> <<r.meta[k], normalize_timestamp(DecStr(r.now))>>]

\* the X-Account-Meta- headers, each stamped with the request's timestamp
MetadataFromHeaders(r, timestamp) ==
    [k \in DOMAIN r.meta |-> <<r.meta[k], timestamp>>]

\* PUT_account_mutate with line 152 inverted: created = not broker.is_deleted()
PUT_account_mutate_inverted(d, observed, timestamp) ==
    IF ~observed
    THEN IF db_exists(d)
         THEN [db |-> d, created |-> "unbound", done |-> FALSE, res |-> Raised]
         ELSE [db |-> initialize(d, timestamp), created |-> "True", done |-> FALSE,
               res |-> Raised]
    ELSE IF is_status_deleted(d)
    THEN [db |-> d, created |-> "unbound", done |-> TRUE,
          res |-> deleted_response(d, 403)]
    ELSE LET d2 == update_put_timestamp(d, timestamp)
         IN [db |-> d2,
             created |-> IF ~is_deleted(d) THEN "True" ELSE "False",
             done |-> is_deleted(d2),
             res |-> IF is_deleted(d2) THEN Response(409) ELSE Raised]

\* PUT_account_mutate without lines 148-150: the status marker is not consulted
PUT_account_mutate_unguarded(d, observed, timestamp) ==
    IF ~observed
    THEN IF db_exists(d)
         THEN [db |-> d, created |-> "unbound", done |-> FALSE, res |-> Raised]
         ELSE [db |-> initialize(d, timestamp), created |-> "True", done |-> FALSE,
               res |-> Raised]
    ELSE LET d2 == update_put_timestamp(d, timestamp)
         IN [db |-> d2,
             created |-> IF is_deleted(d) THEN "True" ELSE "False",
             done |-> is_deleted(d2),
             res |-> IF is_deleted(d2) THEN Response(409) ELSE Raised]

\* PUT_account_mutate with line 153 calling broker.initialize(timestamp), which
\* writes a fresh record, instead of broker.update_put_timestamp(timestamp)
PUT_account_mutate_reinitialize(d, observed, timestamp) ==
    IF ~observed
    THEN IF db_exists(d)
         THEN [db |-> d, created |-> "unbound", done |-> FALSE, res |-> Raised]
         ELSE [db |-> initialize(d, timestamp), created |-> "True", done |-> FALSE,
               res |-> Raised]
    ELSE IF is_status_deleted(d)
    THEN [db |-> d, created |-> "unbound", done |-> TRUE,
          res |-> deleted_response(d, 403)]
    ELSE LET d2 == initialize(d, timestamp)
         IN [db |-> d2,
             created |-> IF is_deleted(d) THEN "True" ELSE "False",
             done |-> is_deleted(d2),
             res |-> IF is_deleted(d2) THEN Response(409) ELSE Raised]

\* PUT_account_mutate answering 409 before line 153 has updated put_timestamp
PUT_account_mutate_check_first(d, observed, timestamp) ==
    IF ~observed
    THEN IF db_exists(d)
         THEN [db |-> d, created |-> "unbound", done |-> FALSE, res |-> Raised]
         ELSE [db |-> initialize(d, timestamp), created |-> "True", done |-> FALSE,
               res |-> Raised]
    ELSE IF is_status_deleted(d)
    THEN [db |-> d, created |-> "unbound", done |-> TRUE,
          res |-> deleted_response(d, 403)]
    ELSE LET d2 == update_put_timestamp(d, timestamp)
         IN [db |-> IF is_deleted(d2) THEN d ELSE d2,
             created |-> IF is_deleted(d) THEN "True" ELSE "False",
             done |-> is_deleted(d2),
             res |-> IF is_deleted(d2) THEN Response(409) ELSE Raised]

\* PUT of an account, lines 142-155: create, refuse, or advance put_timestamp.
\* observed is what os.path.exists(broker.db_file) answered at line 142;
\* created is the local variable, "unbound" while nothing has assigned it
PUT_account_mutate(d, observed, timestamp) ==
    IF ~observed
    THEN IF db_exists(d)
         THEN \* DatabaseAlreadyExists: pass
              [db |-> d, created |-> "unbound", done |-> FALSE, res |-> Raised]
         ELSE [db |-> initialize(d, timestamp), created |-> "True", done |-> FALSE,
               res |-> Raised]
    ELSE IF is_status_deleted(d)
    THEN [db |-> d, created |-> "unbound", done |-> TRUE,
          res |-> deleted_response(d, 403)]
    ELSE LET d2 == update_put_timestamp(d, timestamp)
         IN [db |-> d2,
             created |-> IF is_deleted(d) THEN "True" ELSE "False",
             done |-> is_deleted(d2),
             res |-> IF is_deleted(d2) THEN Response(409) ELSE Raised]

\* PUT of an account, lines 156-165: merge the metadata headers and answer
PUT_account_finish(d, created, timestamp, r) ==
    LET metadata == MetadataFromHeaders(r, timestamp)
        d2 == IF DOMAIN metadata /= {} THEN update_metadata(d, metadata) ELSE d
    IN IF created = "unbound" THEN Outcome(d2, Raised, TRUE)   \* UnboundLocalError
       ELSE IF created = "True" THEN Outcome(d2, Response(201), TRUE)
       ELSE Outcome(d2, Response(202), TRUE)

\* PUT of an account, lines 140-165
PUT_account(d, r) ==
    IF r.x_timestamp = Missing THEN Outcome(d, Raised, FALSE)          \* KeyError
    ELSE IF ~check_float(r.x_timestamp) THEN Outcome(d, Raised, FALSE) \* ValueError
    ELSE LET timestamp == normalize_timestamp(r.x_timestamp)
             m == PUT_account_mutate(d, db_exists(d), timestamp)
         IN IF m.done THEN Outcome(m.db, m.res, TRUE)
            ELSE PUT_account_finish(m.db, m.created, timestamp, r)

Lower(s) == IF s = "YES" THEN "yes" ELSE s

\* the response to a container PUT that has upserted, lines 135-139
ContainerPutStatus(r) ==
    IF PyStrGreater(r.x_delete_timestamp, r.x_put_timestamp) THEN 204 ELSE 201

\* PUT of a container, lines 118-139
PUT_container(d, r) ==
    LET auto == conf.auto_create /\ ~db_exists(d)
        given == IF r.x_timestamp /= Missing THEN r.x_timestamp ELSE DecStr(r.now)
        d1 == IF auto THEN initialize(d, normalize_timestamp(given)) ELSE d
        guarded == Lower(r.override) /= "yes"
    IN IF auto /\ ~check_float(given) THEN Outcome(d, Raised, TRUE)     \* ValueError
       ELSE IF guarded /\ is_deleted(d1) THEN Outcome(d1, Response(404), TRUE)
       ELSE IF Missing \in {r.x_put_timestamp, r.x_delete_timestamp,
                            r.x_object_count, r.x_bytes_used}
       THEN Outcome(d1, Raised, conf.auto_create \/ guarded)           \* KeyError
       ELSE IF ~db_exists(d1) THEN Outcome(d1, Raised, TRUE)   \* DatabaseConnectionError
       ELSE Outcome(put_container(d1, r.container, r.x_put_timestamp,
                                  r.x_delete_timestamp, r.x_object_count,
                                  r.x_bytes_used),
                    Response(ContainerPutStatus(r)), TRUE)

PUT(d, r) ==
    IF ~r.path_ok THEN Outcome(d, Response(400), FALSE)
    ELSE IF MountFailed(r) THEN Outcome(d, Response(507), FALSE)
    ELSE IF r.container /= "" THEN PUT_container(d, r)
    ELSE PUT_account(d, r)

\* HEAD creating the record it does not find, as the container PUT does at
\* lines 121-127
HEAD_initializing(d, r) ==
    IF ~r.path_ok THEN Outcome(d, Response(400), FALSE)
    ELSE IF ~r.param_utf8 THEN Outcome(d, Response(400), FALSE)
    ELSE IF ~r.acceptable THEN Outcome(d, Response(406), FALSE)
    ELSE IF MountFailed(r) THEN Outcome(d, Response(507), FALSE)
    ELSE IF ~db_exists(d)
    THEN Outcome(initialize(d, normalize_timestamp(DecStr(r.now))), Response(204), TRUE)
    ELSE IF is_deleted(d) THEN Outcome(d, deleted_response(d, 404), TRUE)
    ELSE Outcome(d, [Response(204) EXCEPT !.headers = visible_metadata(d)], TRUE)

HEAD(d, r) ==
    IF ~r.path_ok THEN Outcome(d, Response(400), FALSE)
    ELSE IF ~r.param_utf8 THEN Outcome(d, Response(400), FALSE)
    ELSE IF ~r.acceptable THEN Outcome(d, Response(406), FALSE)
    ELSE IF MountFailed(r) THEN Outcome(d, Response(507), FALSE)
    ELSE IF is_deleted(d) THEN Outcome(d, deleted_response(d, 404), TRUE)
    ELSE Outcome(d, [Response(204) EXCEPT !.headers = visible_metadata(d)], TRUE)

ACCOUNT_LISTING_LIMIT == 10000

\* swift.account.utils.account_listing_response: 204 for an empty listing, else 200
account_listing_response(d, limit) ==
    LET listed == {n \in DOMAIN d.containers :
                      d.containers[n].delete_timestamp <= d.containers[n].put_timestamp}
    IN IF listed = {} \/ limit = 0 THEN Response(204) ELSE Response(200)

\* GET with the checks of lines 223-231 moved after the broker's is_deleted (line 246)
GET_query_first(d, r) ==
    LET limit == IF r.limit /= Missing /\ check_float(r.limit)
                 THEN DigitsValue(r.limit) ELSE ACCOUNT_LISTING_LIMIT
    IN IF ~r.path_ok THEN Outcome(d, Response(400), FALSE)
       ELSE IF ~r.param_utf8 THEN Outcome(d, Response(400), FALSE)
       ELSE IF ~r.acceptable THEN Outcome(d, Response(406), FALSE)
       ELSE IF MountFailed(r) THEN Outcome(d, Response(507), FALSE)
       ELSE IF is_deleted(d) THEN Outcome(d, deleted_response(d, 404), TRUE)
       ELSE IF Len(r.delimiter) > 1 THEN Outcome(d, Response(412), TRUE)
       ELSE IF limit > ACCOUNT_LISTING_LIMIT THEN Outcome(d, Response(412), TRUE)
       ELSE Outcome(d, account_listing_response(d, limit), TRUE)

GET(d, r) ==
    LET limit == IF r.limit /= Missing /\ check_float(r.limit)
                 THEN DigitsValue(r.limit) ELSE ACCOUNT_LISTING_LIMIT
    IN IF ~r.path_ok THEN Outcome(d, Response(400), FALSE)
       ELSE IF ~r.param_utf8 THEN Outcome(d, Response(400), FALSE)
       ELSE IF Len(r.delimiter) > 1 THEN Outcome(d, Response(412), FALSE)
       ELSE IF limit > ACCOUNT_LISTING_LIMIT THEN Outcome(d, Response(412), FALSE)
       ELSE IF ~r.acceptable THEN Outcome(d, Response(406), FALSE)
       ELSE IF MountFailed(r) THEN Outcome(d, Response(507), FALSE)
       ELSE IF is_deleted(d) THEN Outcome(d, deleted_response(d, 404), TRUE)
       ELSE Outcome(d, account_listing_response(d, limit), TRUE)

REPLICATE(d, r) ==
    IF ~r.path_ok THEN Outcome(d, Response(400), FALSE)
    ELSE IF MountFailed(r) THEN Outcome(d, Response(507), FALSE)
    ELSE IF ~r.body_ok THEN Outcome(d, Response(400), FALSE)
    ELSE Outcome(d, Response(r.engine_status), TRUE)    \* replicator_rpc.dispatch

POST(d, r) ==
    IF ~r.path_ok THEN Outcome(d, Response(400), FALSE)
    ELSE IF TimestampBad(r) THEN Outcome(d, Response(400), FALSE)
    ELSE IF MountFailed(r) THEN Outcome(d, Response(507), FALSE)
    ELSE IF is_deleted(d) THEN Outcome(d, deleted_response(d, 404), TRUE)
    ELSE LET timestamp == normalize_timestamp(r.x_timestamp)
             metadata == MetadataFromHeaders(r, timestamp)
         IN Outcome(IF DOMAIN metadata /= {} THEN update_metadata(d, metadata) ELSE d,
                    Response(204), TRUE)

----------------------------------------------------------------------------
(* The dispatcher *)

\* the dispatcher without line 318: every attribute counts as public
publicly_accessible_any(m) == TRUE

\* the methods of AccountController decorated @public
publicly_accessible(m) == m \in {"DELETE", "PUT", "HEAD", "GET", "POST", "REPLICATE"}

\* REPLICATE without its @replication decorator (line 254)
replication_unmarked(m) == FALSE

\* getattr(method, 'replication', False): the methods decorated @replication
replication(m) == m = "REPLICATE"

\* lines 316-324: may the method run
Allowed(m) ==
    /\ publicly_accessible(m)
    /\ ~(conf.replication_server /= "None"
          /\ (conf.replication_server = "True") /= replication(m))

Handler(m, d, r) ==
    CASE m = "DELETE" -> DELETE(d, r)
      [] m = "PUT" -> PUT(d, r)
      [] m = "HEAD" -> HEAD(d, r)
      [] m = "GET" -> GET(d, r)
      [] m = "POST" -> POST(d, r)
      [] m = "REPLICATE" -> REPLICATE(d, r)
      [] OTHER -> Outcome(d, Raised, FALSE)     \* not a handler: TypeError

\* the dispatcher without lines 327-331: what the handler raised goes to the transport
Catch_passthrough(response) == response

\* lines 327-331: an exception out of the handler becomes a 500
Catch(response) == IF response.status = 0 THEN Response(500) ELSE response

\* __call__, lines 307-350
Call(d, r) ==
    IF ~r.utf8
    THEN [db |-> d, res |-> Response(412), touched |-> FALSE, invoked |-> "none"]
    ELSE IF ~Allowed(r.method)
    THEN [db |-> d, res |-> Response(405), touched |-> FALSE, invoked |-> "none"]
    ELSE LET o == Handler(r.method, d, r)
         IN [db |-> o.db, res |-> Catch(o.res), touched |-> o.touched,
             invoked |-> r.method]

----------------------------------------------------------------------------
(* The requests the transport delivers *)

ValidTimestamps == {DecStr(n) : n \in 1..MaxTs}

\* X-Timestamp absent, or not a number
BadTimestamps == {Missing, NonNumeric}

MetaHeaders == {EmptyFn} \cup {[k \in {MetaKey} |-> v] : v \in MetaValues}

SomeMeta == [k \in {MetaKey} |-> "a"]

ContainerTs == {DecStr(n) : n \in 9..(9 + ContainerTsSpan)}

\* (X-Object-Count, X-Bytes-Used)
Counts ==
    {<<DecStr(n), DecStr(0)>> : n \in 0..MaxCount}
    \cup {<<DecStr(0), DecStr(n)>> : n \in 0..MaxCount}

\* a path split_path rejects, a device that is not mounted
Rejected(m) ==
    {[BaseReq(m) EXCEPT !.path_ok = FALSE, !.x_timestamp = DecStr(MaxTs)],
     [BaseReq(m) EXCEPT !.check_mount = FALSE, !.x_timestamp = DecStr(MaxTs)]}

WithTimestamp(m, ts, hs) ==
    {[BaseReq(m) EXCEPT !.x_timestamp = t, !.meta = h] : t \in ts, h \in hs}

DeleteRequests ==
    Rejected("DELETE") \cup WithTimestamp("DELETE", ValidTimestamps \cup BadTimestamps, {EmptyFn})

AccountPutRequests ==
    Rejected("PUT")
    \cup WithTimestamp("PUT", ValidTimestamps, MetaHeaders)
    \cup WithTimestamp("PUT", BadTimestamps, {SomeMeta})

PostRequests ==
    Rejected("POST")
    \cup WithTimestamp("POST", ValidTimestamps, MetaHeaders)
    \cup WithTimestamp("POST", BadTimestamps, {SomeMeta})

ContainerPut(p, q, c, v) ==
    [BaseReq("PUT") EXCEPT !.container = ContainerName, !.x_put_timestamp = p,
                           !.x_delete_timestamp = q, !.x_object_count = c[1],
                           !.x_bytes_used = c[2], !.override = v]

NoCounts == <<DecStr(0), DecStr(0)>>

ContainerPutRequests ==
    {ContainerPut(p, q, c, "no") : p \in ContainerTs, q \in ContainerTs, c \in Counts}
    \cup {ContainerPut(p, q, NoCounts, v) :
             p \in ContainerTs, q \in ContainerTs, v \in {"yes", "YES"}}
    \cup {ContainerPut(Missing, DecStr(9), NoCounts, v) : v \in {"no", "YES"}}
    \cup {[ContainerPut(DecStr(9), DecStr(9), NoCounts, "no")
             EXCEPT !.x_timestamp = t] : t \in {NonNumeric, DecStr(MaxTs)}}
    \cup {[ContainerPut(DecStr(9), DecStr(9), NoCounts, "no") EXCEPT !.check_mount = FALSE]}

HeadRequests ==
    {BaseReq("HEAD"),
     [BaseReq("HEAD") EXCEPT !.path_ok = FALSE],
     [BaseReq("HEAD") EXCEPT !.param_utf8 = FALSE],
     [BaseReq("HEAD") EXCEPT !.acceptable = FALSE],
     [BaseReq("HEAD") EXCEPT !.check_mount = FALSE]}

Limits == {Missing, NonNumeric, DecStr(0), DecStr(ACCOUNT_LISTING_LIMIT),
           DecStr(ACCOUNT_LISTING_LIMIT + 1)}

Delimiters == {Missing, <<47>>, <<47, 47>>}

GetRequests ==
    {[BaseReq("GET") EXCEPT !.limit = l] : l \in Limits}
    \cup {[BaseReq("GET") EXCEPT !.delimiter = x] : x \in Delimiters}
    \cup {[BaseReq("GET") EXCEPT !.path_ok = FALSE],
          [BaseReq("GET") EXCEPT !.param_utf8 = FALSE],
          [BaseReq("GET") EXCEPT !.acceptable = FALSE],
          [BaseReq("GET") EXCEPT !.check_mount = FALSE],
          [BaseReq("GET") EXCEPT !.check_mount = FALSE, !.delimiter = <<47, 47>>],
          [BaseReq("GET") EXCEPT !.check_mount = FALSE,
                                 !.limit = DecStr(ACCOUNT_LISTING_LIMIT + 1)]}

ReplicateRequests ==
    {[BaseReq("REPLICATE") EXCEPT !.engine_status = e] : e \in {200, 404}}
    \cup {[BaseReq("REPLICATE") EXCEPT !.path_ok = FALSE],
          [BaseReq("REPLICATE") EXCEPT !.body_ok = FALSE],
          [BaseReq("REPLICATE") EXCEPT !.check_mount = FALSE]}

\* attributes of the controller that are not @public, and a verb it does not have
OtherMethods == {"_get_account_broker", "_deleted_response", "__call__", "OPTIONS"}

OtherRequests == {[BaseReq(m) EXCEPT !.x_timestamp = DecStr(1)] : m \in OtherMethods}

----------------------------------------------------------------------------
(* The server *)

Modes == {"None", "True", "False"}

\* conf.get('mount_check', 'true'), conf.get('replication_server', None); the
\* account's name does not start with auto_create_account_prefix
DefaultConf == [mount_check |-> TRUE, replication_server |-> "None", auto_create |-> FALSE]

Idle == [pc |-> "idle", req |-> BaseReq("PUT"), observed |-> FALSE, created |-> "unbound"]

Workers == 1..NumWorkers

Start(configurations) ==
    /\ conf \in configurations
    /\ db = NoDB
    /\ req = BaseReq("none")
    /\ res = Response(0)
    /\ invoked = "none"
    /\ touched = FALSE
    /\ workers = [w \in Workers |-> Idle]

\* one request through __call__, handled without interleaving: what it does
\* to the database and what it answers
Dispatch(r) ==
    LET o == Call(db, r)
    IN /\ db' = o.db
       /\ req' = r
       /\ res' = o.res
       /\ invoked' = o.invoked
       /\ touched' = o.touched

----------------------------------------------------------------------------
(* Spec: the account protocol, requests handled one at a time by a server   *)
(* in its default configuration                                             *)

Init == Start({DefaultConf})

DoDELETE ==
    /\ \E r \in DeleteRequests : Dispatch(r)
    /\ UNCHANGED <<conf, workers>>

DoPUT ==
    /\ \E r \in AccountPutRequests
                \cup {ContainerPut(DecStr(9), DecStr(9 + ContainerTsSpan), NoCounts, "no")} :
          Dispatch(r)
    /\ UNCHANGED <<conf, workers>>

DoHEAD ==
    /\ \E r \in {BaseReq("HEAD"), [BaseReq("HEAD") EXCEPT !.check_mount = FALSE]} :
          Dispatch(r)
    /\ UNCHANGED <<conf, workers>>

DoGET ==
    /\ \E r \in {BaseReq("GET"), [BaseReq("GET") EXCEPT !.check_mount = FALSE]} :
          Dispatch(r)
    /\ UNCHANGED <<conf, workers>>

DoPOST ==
    /\ \E r \in PostRequests : Dispatch(r)
    /\ UNCHANGED <<conf, workers>>

Next == DoDELETE \/ DoPUT \/ DoHEAD \/ DoGET \/ DoPOST

Spec == Init /\ [][Next]_vars

----------------------------------------------------------------------------
(* SpecDispatch: every method name, under each of the three modes of         *)
(* replication_server                                                        *)

InitDispatch == Start({[DefaultConf EXCEPT !.replication_server = m] : m \in Modes})

AllMethods == {"DELETE", "PUT", "HEAD", "GET", "POST", "REPLICATE"} \cup OtherMethods

GateDELETE ==
    /\ \E r \in WithTimestamp("DELETE", {DecStr(MaxTs)}, {EmptyFn}) : Dispatch(r)
    /\ UNCHANGED <<conf, workers>>

GatePUT ==
    /\ \E r \in WithTimestamp("PUT", ValidTimestamps, {EmptyFn, SomeMeta}) : Dispatch(r)
    /\ UNCHANGED <<conf, workers>>

GateHEAD ==
    /\ \E r \in HeadRequests : Dispatch(r)
    /\ UNCHANGED <<conf, workers>>

GateGET ==
    /\ \E r \in GetRequests : Dispatch(r)
    /\ UNCHANGED <<conf, workers>>

GatePOST ==
    /\ \E r \in WithTimestamp("POST", ValidTimestamps, {SomeMeta}) : Dispatch(r)
    /\ UNCHANGED <<conf, workers>>

GateREPLICATE ==
    /\ \E r \in ReplicateRequests : Dispatch(r)
    /\ UNCHANGED <<conf, workers>>

GateOther ==
    /\ \E r \in OtherRequests : Dispatch(r)
    /\ UNCHANGED <<conf, workers>>

\* check_utf8(req.path_info) fails
GateNotUtf8 ==
    /\ \E m \in AllMethods : Dispatch([BaseReq(m) EXCEPT !.utf8 = FALSE])
    /\ UNCHANGED <<conf, workers>>

NextDispatch ==
    \/ GateDELETE \/ GatePUT \/ GateHEAD \/ GateGET \/ GatePOST
    \/ GateREPLICATE \/ GateOther \/ GateNotUtf8

SpecDispatch == InitDispatch /\ [][NextDispatch]_vars

----------------------------------------------------------------------------
(* SpecContainer: container PUTs with every combination of their headers,   *)
(* against an account that is created and deleted, with and without the     *)
(* auto-create prefix                                                       *)

InitContainer == Start({[DefaultConf EXCEPT !.auto_create = a] : a \in BOOLEAN})

ContainerPUT ==
    /\ \E r \in ContainerPutRequests : Dispatch(r)
    /\ UNCHANGED <<conf, workers>>

ContainerAccountPUT ==
    /\ \E r \in WithTimestamp("PUT", {DecStr(1)}, {EmptyFn}) : Dispatch(r)
    /\ UNCHANGED <<conf, workers>>

ContainerAccountDELETE ==
    /\ \E r \in WithTimestamp("DELETE", {DecStr(MaxTs)}, {EmptyFn}) : Dispatch(r)
    /\ UNCHANGED <<conf, workers>>

ContainerGET ==
    /\ \E r \in GetRequests : Dispatch(r)
    /\ UNCHANGED <<conf, workers>>

NextContainer == ContainerPUT \/ ContainerAccountPUT \/ ContainerAccountDELETE \/ ContainerGET

SpecContainer == InitContainer /\ [][NextContainer]_vars

----------------------------------------------------------------------------
(* SpecRace: account PUTs run by concurrent workers; each accessor call is  *)
(* atomic, the handler is not. A worker observes os.path.exists (line 142), *)
(* then creates or updates (143-155), then merges metadata and answers      *)
(* (156-165)                                                                *)

RaceRequests == WithTimestamp("PUT", ValidTimestamps, {EmptyFn, SomeMeta})

Answer(r, response) ==
    /\ req' = r
    /\ res' = Catch(response)
    /\ invoked' = "PUT"
    /\ touched' = TRUE

PutStart(w) ==
    /\ workers[w].pc = "idle"
    /\ \E r \in RaceRequests :
          workers' = [workers EXCEPT ![w] =
              [pc |-> "mutate", req |-> r, observed |-> db_exists(db),
               created |-> "unbound"]]
    /\ UNCHANGED <<conf, db, req, res, invoked, touched>>

PutMutate(w) ==
    /\ workers[w].pc = "mutate"
    /\ LET r == workers[w].req
           m == PUT_account_mutate(db, workers[w].observed,
                                   normalize_timestamp(r.x_timestamp))
       IN /\ db' = m.db
          /\ IF m.done
             THEN /\ Answer(r, m.res)
                  /\ workers' = [workers EXCEPT ![w] = Idle]
             ELSE /\ workers' = [workers EXCEPT ![w].pc = "finish",
                                                ![w].created = m.created]
                  /\ UNCHANGED <<req, res, invoked, touched>>
    /\ UNCHANGED conf

PutFinish(w) ==
    /\ workers[w].pc = "finish"
    /\ LET r == workers[w].req
           o == PUT_account_finish(db, workers[w].created,
                                   normalize_timestamp(r.x_timestamp), r)
       IN /\ db' = o.db
          /\ Answer(r, o.res)
    /\ workers' = [workers EXCEPT ![w] = Idle]
    /\ UNCHANGED conf

NextRace ==
    \/ \E w \in Workers : PutStart(w)
    \/ \E w \in Workers : PutMutate(w)
    \/ \E w \in Workers : PutFinish(w)

SpecRace == Init /\ [][NextRace]_vars

----------------------------------------------------------------------------
(* SpecMount: the six handlers with mount checking on and off, each request *)
(* addressed to a mounted and to an unmounted device                        *)

InitMount == Start({[DefaultConf EXCEPT !.mount_check = b] : b \in BOOLEAN})

\* the same requests addressed to a device that is not mounted
Unmounted(rs) == {[r EXCEPT !.check_mount = FALSE] : r \in rs}

OnBothDevices(rs) == rs \cup Unmounted(rs)

MountDELETE ==
    /\ \E r \in OnBothDevices(WithTimestamp("DELETE", {DecStr(MaxTs), NonNumeric}, {EmptyFn})
                              \cup {[BaseReq("DELETE") EXCEPT !.path_ok = FALSE]}) :
          Dispatch(r)
    /\ UNCHANGED <<conf, workers>>

MountPUT ==
    /\ \E r \in OnBothDevices(WithTimestamp("PUT", {DecStr(1)}, {EmptyFn, SomeMeta})
                              \cup {ContainerPut(DecStr(9), DecStr(9), NoCounts, "no"),
                                    [BaseReq("PUT") EXCEPT !.path_ok = FALSE]}) :
          Dispatch(r)
    /\ UNCHANGED <<conf, workers>>

MountHEAD ==
    /\ \E r \in OnBothDevices(HeadRequests) : Dispatch(r)
    /\ UNCHANGED <<conf, workers>>

MountGET ==
    /\ \E r \in OnBothDevices(GetRequests) : Dispatch(r)
    /\ UNCHANGED <<conf, workers>>

MountPOST ==
    /\ \E r \in OnBothDevices(WithTimestamp("POST", {DecStr(MaxTs), Missing}, {SomeMeta})
                              \cup {[BaseReq("POST") EXCEPT !.path_ok = FALSE]}) :
          Dispatch(r)
    /\ UNCHANGED <<conf, workers>>

MountREPLICATE ==
    /\ \E r \in OnBothDevices(ReplicateRequests) : Dispatch(r)
    /\ UNCHANGED <<conf, workers>>

NextMount ==
    \/ MountDELETE \/ MountPUT \/ MountHEAD \/ MountGET \/ MountPOST \/ MountREPLICATE

SpecMount == InitMount /\ [][NextMount]_vars

----------------------------------------------------------------------------
(* SpecRecord: the handlers applied to the record as a replica may hold it.  *)
(* The database file is written by this server's handlers and by the        *)
(* replication engine, which merges a peer's timestamps without setting the *)
(* status marker; the record starts as any of these                         *)

Records ==
    {NoDB} \cup
    {d \in {[NoDB EXCEPT !.exists = TRUE, !.status = s, !.created_at = c,
                         !.put_timestamp = p, !.delete_timestamp = x] :
               s \in {"", "DELETED"}, c \in 1..MaxTs, p \in 1..MaxTs, x \in 0..MaxTs} :
        /\ d.created_at <= d.put_timestamp
        /\ d.status = "DELETED" => d.delete_timestamp > 0}

InitRecord ==
    /\ conf = DefaultConf
    /\ db \in Records
    /\ req = BaseReq("none")
    /\ res = Response(0)
    /\ invoked = "none"
    /\ touched = FALSE
    /\ workers = [w \in Workers |-> Idle]

RecordPUT ==
    /\ \E r \in WithTimestamp("PUT", ValidTimestamps, {EmptyFn, SomeMeta})
                \cup {ContainerPut(DecStr(9), DecStr(9), NoCounts, "yes")} :
          Dispatch(r)
    /\ UNCHANGED <<conf, workers>>

RecordDELETE ==
    /\ \E r \in WithTimestamp("DELETE", ValidTimestamps, {EmptyFn}) : Dispatch(r)
    /\ UNCHANGED <<conf, workers>>

RecordPOST ==
    /\ \E r \in WithTimestamp("POST", ValidTimestamps, {SomeMeta}) : Dispatch(r)
    /\ UNCHANGED <<conf, workers>>

RecordHEAD ==
    /\ Dispatch(BaseReq("HEAD"))
    /\ UNCHANGED <<conf, workers>>

NextRecord == RecordPUT \/ RecordDELETE \/ RecordPOST \/ RecordHEAD

SpecRecord == InitRecord /\ [][NextRecord]_vars

----------------------------------------------------------------------------
(* Properties *)

IsAccountPut(r) == r.method = "PUT" /\ r.container = ""

\* the request passes check_utf8, split_path and the mount check
ReachesAccessor(r) == r.utf8 /\ r.path_ok /\ ~MountFailed(r)

\* the request carries a numeric X-Timestamp
Stamped(r) == check_float(r.x_timestamp)

Ts(r) == ParseTs(r.x_timestamp)

\* the record exists, carries no status marker and is not deleted
Active(d) == d.exists /\ d.status /= "DELETED" /\ d.delete_timestamp <= d.put_timestamp

\* C1 (monotonic put): the stored put_timestamp never decreases; an account PUT
\* with timestamp T on an account that does not exist creates it at T and
\* answers 201; on an active account it leaves put_timestamp at max(stored, T),
\* so a PUT older than the stored one changes nothing, and answers 202.
C1_MonotonicPut ==
    [][/\ db'.put_timestamp >= db.put_timestamp
       /\ (IsAccountPut(req') /\ ReachesAccessor(req') /\ Stamped(req')) =>
             /\ ~db.exists => (res'.status = 201 /\ db'.put_timestamp = Ts(req'))
             /\ Active(db) =>
                   /\ res'.status = 202
                   /\ db'.put_timestamp = Max(db.put_timestamp, Ts(req'))
                   /\ (Ts(req') < db.put_timestamp => db'.put_timestamp = db.put_timestamp)
      ]_vars

\* the PUT with the smaller timestamp arrived after the larger one
C1_Witness ==
    /\ IsAccountPut(req) /\ Stamped(req) /\ res.status = 202
    /\ Ts(req) < db.put_timestamp
    /\ Active(db)

\* the account was tombstoned by a DELETE, whose timestamp is its delete_timestamp
DeletedByDelete(d) == d.exists /\ d.status = "DELETED"

\* C2 as claimed (resurrection): on an account deleted by a DELETE with
\* timestamp D, an account PUT with T3 > D makes it active again and answers
\* 201 or 202, and one with T3 <= D answers 409.
C2_ResurrectionAsClaimed ==
    [][(IsAccountPut(req') /\ ReachesAccessor(req') /\ Stamped(req')
        /\ DeletedByDelete(db)) =>
          IF Ts(req') > db.delete_timestamp
          THEN res'.status \in {201, 202} /\ Active(db')
          ELSE res'.status = 409
      ]_vars

\* C2 (as amended): on an account deleted by a DELETE, every account PUT,
\* whatever its timestamp, answers 403 with X-Account-Status: Deleted and
\* leaves the record as it was, still deleted.
C2_DeletedAccountRefusesPut ==
    [][(IsAccountPut(req') /\ ReachesAccessor(req') /\ Stamped(req')
        /\ DeletedByDelete(db)) =>
          /\ res'.status = 403
          /\ res'.x_account_status = "Deleted"
          /\ db' = db
      ]_vars

\* a PUT newer than the tombstone was refused
C2_Witness ==
    /\ IsAccountPut(req) /\ Stamped(req) /\ res.status = 403
    /\ DeletedByDelete(db)
    /\ Ts(req) > db.delete_timestamp

\* the handlers treat the record as deleted: is_deleted (DELETE, container PUT,
\* HEAD, GET, POST), or the status marker (account PUT, X-Account-Status)
TreatedDeleted(d) == is_status_deleted(d) \/ is_deleted(d)

\* C4 as claimed (account-deleted invariant): an existing account is treated as
\* deleted by the handlers iff its delete_timestamp is greater than its
\* put_timestamp; a DELETE no newer than the stored put_timestamp does not
\* make it deleted.
C4_DeletedIffDeleteNewer ==
    db.exists => (TreatedDeleted(db) <=> db.delete_timestamp > db.put_timestamp)

\* the record exists and is a tombstone
AlreadyDeleted(d) ==
    d.exists /\ (d.status = "DELETED" \/ d.delete_timestamp > d.put_timestamp)

IsMetadataWrite(r) ==
    /\ r.method = "POST" \/ IsAccountPut(r)
    /\ ReachesAccessor(r) /\ Stamped(r)
    /\ MetaKey \in DOMAIN r.meta

\* C7 (metadata last-writer-wins): a metadata write by POST or account PUT to
\* a key of an active account, with timestamp T, stores its value iff T is
\* newer than the timestamp stored for the key; on a tie or an older T the
\* stored value stays. A stored key never disappears and its timestamp never
\* decreases, so two writes T1 < T2 end with the value of T2 in either order.
C7_MetadataLastWriterWins ==
    [][/\ (IsMetadataWrite(req') /\ Active(db)) =>
             db'.metadata[MetaKey] =
                 IF MetaKey \in DOMAIN db.metadata /\ db.metadata[MetaKey][2] >= Ts(req')
                 THEN db.metadata[MetaKey]
                 ELSE <<req'.meta[MetaKey], Ts(req')>>
       /\ \A k \in DOMAIN db.metadata :
             k \in DOMAIN db'.metadata /\ db'.metadata[k][2] >= db.metadata[k][2]
      ]_vars

\* the older of two writes arrived last and the newer value stayed
C7_Witness ==
    /\ IsMetadataWrite(req) /\ Active(db) /\ res.status \in {202, 204}
    /\ Ts(req) < db.metadata[MetaKey][2]
    /\ db.metadata[MetaKey][1] /= req.meta[MetaKey]

\* C10 as claimed (timestamp validation): a DELETE, account PUT or POST whose
\* X-Timestamp is missing or not numeric, and which passes the path and mount
\* checks, is answered 400.
C10_BadTimestampIs400 ==
    ((req.method \in {"DELETE", "POST"} \/ IsAccountPut(req))
     /\ ReachesAccessor(req) /\ ~Stamped(req)) => res.status = 400

\* C3 as claimed (racing create): the account PUT that observed no record and
\* then lost the race to initialize it still answers 201 or 202, and the
\* record is active.
C3_RaceLoserSucceeds ==
    [][\A w \in Workers :
          (/\ workers[w].pc = "finish" /\ workers'[w].pc = "idle"
           /\ ~workers[w].observed /\ workers[w].created = "unbound") =>
             (res'.status \in {201, 202} /\ Active(db'))
      ]_vars

IsContainerPut(r) == r.method = "PUT" /\ r.container /= ""

\* C6 as claimed (tombstone-wins container PUT): a container PUT that has
\* upserted answers 204 iff its X-Delete-Timestamp is greater, as a number,
\* than its X-Put-Timestamp, and 201 otherwise, whatever the counters.
C6_TombstoneWinsNumerically ==
    (IsContainerPut(req) /\ res.status \in {201, 204}) =>
        (res.status = 204
            <=> ParseTs(req.x_delete_timestamp) > ParseTs(req.x_put_timestamp))

HandlerNames == {"DELETE", "PUT", "HEAD", "GET", "POST", "REPLICATE"}

\* the mode lets the handler named m run
ModeAdmits(mode, m) ==
    \/ mode = "None"
    \/ mode = "True" /\ m = "REPLICATE"
    \/ mode = "False" /\ m /= "REPLICATE"

\* C8 (replication-mode gating): for a request for one of the six handlers
\* (its path valid UTF-8), the handler runs when the mode is unspecified, or
\* replication-only and the handler is REPLICATE, or normal-only and it is
\* not REPLICATE; otherwise the answer is 405, nothing is invoked, no
\* accessor operation is performed and the record is unchanged.
C8_ReplicationModeGating ==
    [][(req'.utf8 /\ req'.method \in HandlerNames) =>
          IF ModeAdmits(conf.replication_server, req'.method)
          THEN invoked' = req'.method /\ res'.status /= 405
          ELSE /\ res'.status = 405
               /\ invoked' = "none"
               /\ ~touched'
               /\ db' = db
      ]_vars

\* REPLICATE was refused by a normal-only server
C8_Witness ==
    /\ conf.replication_server = "False"
    /\ req.method = "REPLICATE" /\ req.utf8
    /\ res.status = 405 /\ invoked = "none"

\* C9 (public-method gating): a request (its path valid UTF-8) whose method
\* is not one of the six @public handlers is answered 405 in every mode;
\* nothing is invoked, no accessor operation is performed and the record is
\* unchanged.
C9_PublicMethodGating ==
    [][(req'.utf8 /\ req'.method \notin HandlerNames) =>
          /\ res'.status = 405
          /\ invoked' = "none"
          /\ ~touched'
          /\ db' = db
      ]_vars

\* an unmarked attribute of the controller was requested on an existing account
C9_Witness ==
    /\ req.method = "_get_account_broker" /\ req.utf8
    /\ res.status = 405 /\ invoked = "none"
    /\ db.exists

\* the record holds the whole of the account PUT r: its metadata headers are
\* merged (or superseded by a newer write to the same key)
MetadataApplied(d, r) ==
    \A k \in DOMAIN r.meta : k \in DOMAIN d.metadata /\ d.metadata[k][2] >= Ts(r)

\* C11 as claimed (atomic mutation): at no point of an account PUT carrying
\* metadata, where the handler may be aborted or a concurrent reader may
\* look, does the record hold the request's created / put_timestamp change
\* without the request's metadata.
C11_AtomicMutation ==
    \A w \in Workers :
        (workers[w].pc = "finish" /\ workers[w].created /= "unbound"
         /\ DOMAIN workers[w].req.meta /= {}) =>
            MetadataApplied(db, workers[w].req)

\* the handler __call__ dispatched to raised while handling r on the record d
HandlerRaises(d, r) == r.utf8 /\ Allowed(r.method) /\ Handler(r.method, d, r).res = Raised

\* C12 (catch-all): whatever a dispatched handler raises (a container PUT
\* without one of its four required headers raises KeyError) the dispatcher
\* answers 500; it always returns a response, never the failure itself.
C12_CatchAll ==
    [][/\ res'.status /= Raised.status
       /\ HandlerRaises(db, req') => (res'.status = 500 /\ invoked' = req'.method)
      ]_vars

\* a container PUT without X-Put-Timestamp on an existing account was answered 500
C12_Witness ==
    /\ IsContainerPut(req) /\ req.x_put_timestamp = Missing
    /\ invoked = "PUT" /\ res.status = 500
    /\ db.exists

\* the listing parameters of a GET pass lines 221-231
ListingValid(r) ==
    /\ Len(r.delimiter) <= 1
    /\ ~(check_float(r.limit) /\ DigitsValue(r.limit) > ACCOUNT_LISTING_LIMIT)

\* the request passes the validation steps its handler performs before the
\* mount check
PassesEarlierValidation(r) ==
    /\ r.path_ok
    /\ r.method = "HEAD" => (r.param_utf8 /\ r.acceptable)
    /\ r.method = "GET" => (r.param_utf8 /\ ListingValid(r) /\ r.acceptable)
    /\ r.method = "POST" => ~TimestampBad(r)

\* C13 (mount guard): with mount checking enabled, a request for any of the
\* six handlers addressed to an unmounted device performs no accessor or
\* replication-engine operation and leaves the record alone, and is answered
\* 507 if it passes the handler's earlier validation steps; with mount
\* checking disabled the same request on a mounted and on an unmounted device
\* has the same outcome.
C13_MountGuard ==
    [][(req'.utf8 /\ req'.method \in HandlerNames) =>
          /\ (conf.mount_check /\ ~req'.check_mount) =>
                /\ ~touched'
                /\ db' = db
                /\ PassesEarlierValidation(req') => res'.status = 507
          /\ ~conf.mount_check =>
                LET o == Call(db, [req' EXCEPT !.check_mount = ~@])
                IN db' = o.db /\ res' = o.res /\ touched' = o.touched
      ]_vars

\* a REPLICATE for an unmounted device was refused on a server that holds the account
C13_Witness ==
    /\ conf.mount_check /\ ~req.check_mount
    /\ req.method = "REPLICATE" /\ req.body_ok
    /\ res.status = 507 /\ ~touched
    /\ db.exists

\* a HEAD or GET that passes its validation steps and the mount check
IsValidRead(r) ==
    /\ r.method \in {"HEAD", "GET"}
    /\ r.utf8 /\ PassesEarlierValidation(r) /\ ~MountFailed(r)

C15_ListingValidationFirst ==
    [][(req'.method = "GET" /\ req'.utf8 /\ ~ListingValid(req')) =>
          /\ ~touched'
          /\ db' = db
          /\ (req'.path_ok /\ req'.param_utf8) => res'.status = 412
      ]_vars

\* a GET above the limit, for an unmounted device and a tombstoned account, got 412
C15_Witness ==
    /\ req.method = "GET" /\ req.limit = DecStr(ACCOUNT_LISTING_LIMIT + 1)
    /\ conf.mount_check /\ ~req.check_mount
    /\ DeletedByDelete(db)
    /\ res.status = 412 /\ ~touched

\* a container PUT that reaches the tombstone guard of lines 128-130 with its
\* four required headers, on an account the guard finds deleted: tombstoned,
\* or not existing and not auto-created
GuardedContainerPut(d, r) ==
    /\ IsContainerPut(r) /\ ReachesAccessor(r)
    /\ Missing \notin {r.x_put_timestamp, r.x_delete_timestamp,
                       r.x_object_count, r.x_bytes_used}
    /\ is_deleted(d)
    /\ ~(conf.auto_create /\ ~d.exists)

\* X-Account-Override-Deleted: yes, in any case
Overrides(r) == r.override \in {"yes", "YES"}

\* the record after the accessor upserted the container entry of r
Upserted(d, r) ==
    put_container(d, r.container, r.x_put_timestamp, r.x_delete_timestamp,
                  r.x_object_count, r.x_bytes_used)

\* C16 as claimed (container PUT tombstone guard): a container PUT against an
\* account that is deleted, or does not exist and is not auto-created, answers
\* 404 and writes nothing, unless it carries the override, in which case the
\* entry is upserted and the answer is 201 or 204.
C16_OverrideAlwaysUpserts ==
    [][GuardedContainerPut(db, req') =>
          IF Overrides(req')
          THEN res'.status \in {201, 204} /\ db' = Upserted(db, req')
          ELSE res'.status = 404 /\ db' = db
      ]_vars

\* the key is stored with an empty value
EmptyValued(d, k) == k \in DOMAIN d.metadata /\ d.metadata[k][1] = ""

\* C17 (empty metadata is a versioned tombstone): a HEAD answered 204 echoes
\* a metadata key iff the key is stored with a value that is not empty; and
\* on an active account whose key is stored empty at timestamp T, a metadata
\* write with a timestamp no newer than T leaves the slot as it is, so the
\* key stays out of HEAD responses, while a write newer than T replaces it.
C17_EmptyValueTombstone ==
    [][/\ (req'.method = "HEAD" /\ res'.status = 204) =>
             (MetaKey \in DOMAIN res'.headers <=>
                 (MetaKey \in DOMAIN db'.metadata /\ ~EmptyValued(db', MetaKey)))
       /\ (IsMetadataWrite(req') /\ Active(db) /\ EmptyValued(db, MetaKey)) =>
             IF Ts(req') > db.metadata[MetaKey][2]
             THEN db'.metadata[MetaKey] = <<req'.meta[MetaKey], Ts(req')>>
             ELSE db'.metadata[MetaKey] = db.metadata[MetaKey]
      ]_vars

\* a value that is not empty, older than the stored empty one, arrived and
\* the key stayed empty
C17_Witness ==
    /\ IsMetadataWrite(req) /\ req.meta[MetaKey] /= ""
    /\ res.status \in {202, 204}
    /\ Active(db) /\ EmptyValued(db, MetaKey)
    /\ Ts(req) < db.metadata[MetaKey][2]
    /\ MetaKey \notin DOMAIN visible_metadata(db)

\* deleted by its timestamps alone: no status marker, so an account PUT may
\* resurrect it
Resurrectable(d) ==
    d.exists /\ d.status /= "DELETED" /\ d.delete_timestamp > d.put_timestamp

\* C18 as claimed (PUT frame): no account PUT, whatever its timestamp and
\* answer, changes the stored delete_timestamp; no PUT, POST or DELETE changes
\* the created_at of a record that exists; and an account PUT that resurrects
\* a record changes only put_timestamp, moving it ahead of delete_timestamp.
C18_PutFrameAsClaimed ==
    [][/\ IsAccountPut(req') => db'.delete_timestamp = db.delete_timestamp
       /\ (db.exists /\ req'.method \in {"PUT", "POST", "DELETE"}) =>
             db'.created_at = db.created_at
       /\ (IsAccountPut(req') /\ Resurrectable(db) /\ res'.status \in {201, 202}) =>
             /\ db'.put_timestamp > db'.delete_timestamp
             /\ [db' EXCEPT !.put_timestamp = db.put_timestamp,
                            !.metadata = db.metadata] = db
      ]_vars

\* C18 (as amended): no account PUT changes the stored delete_timestamp; no
\* PUT, POST or DELETE changes the created_at of a record that exists; and an
\* account PUT that resurrects a record changes only put_timestamp (and
\* merges its metadata), setting it to its own timestamp, which is equal to
\* or greater than delete_timestamp.
C18_PutFrame ==
    [][/\ IsAccountPut(req') => db'.delete_timestamp = db.delete_timestamp
       /\ (db.exists /\ req'.method \in {"PUT", "POST", "DELETE"}) =>
             db'.created_at = db.created_at
       /\ (IsAccountPut(req') /\ Resurrectable(db) /\ res'.status \in {201, 202}) =>
             /\ db'.put_timestamp = Ts(req')
             /\ db'.put_timestamp >= db'.delete_timestamp
             /\ [db' EXCEPT !.put_timestamp = db.put_timestamp,
                            !.metadata = db.metadata] = db
      ]_vars

\* an account PUT at the stored delete_timestamp resurrected a record that had
\* been created and deleted earlier
C18_Witness ==
    /\ IsAccountPut(req) /\ res.status = 201
    /\ db.delete_timestamp > db.created_at
    /\ db.put_timestamp = Ts(req) /\ db.put_timestamp = db.delete_timestamp
    /\ db.status /= "DELETED"

\* C19 (reads do not mutate): a HEAD or GET, whatever its parameters, the
\* mount state and its answer, leaves the whole record (status, created_at,
\* put_timestamp, delete_timestamp, metadata, container entries) as it was,
\* and a record that does not exist still does not exist afterwards.
C19_ReadsDoNotMutate ==
    [][req'.method \in {"HEAD", "GET"} =>
          /\ db' = db
          /\ ~db.exists => ~db'.exists
          /\ res'.status \in {200, 204, 400, 404, 406, 412, 507}
      ]_vars

\* a GET listed the containers of an active account
C19_Witness ==
    /\ req.method = "GET" /\ res.status = 200 /\ touched
    /\ Active(db)
    /\ ContainerName \in DOMAIN db.containers

\* C20 (outcome of a rejected account PUT): an account PUT answered 403 found
\* the status marker and changed nothing; an account PUT answered 409 has
\* changed put_timestamp to max(stored, given) and nothing else, its metadata
\* headers are not merged, so the record after a 409 may differ from the
\* record before it.
C20_RejectedPutOutcome ==
    [][IsAccountPut(req') =>
          /\ res'.status = 403 => (is_status_deleted(db) /\ db' = db)
          /\ res'.status = 409 =>
                /\ db' = [db EXCEPT !.put_timestamp = Max(db.put_timestamp, Ts(req'))]
                /\ db'.metadata = db.metadata
                /\ is_deleted(db')
      ]_vars

\* a 409 for a PUT that carried metadata: put_timestamp is the request's, past
\* created_at, and nothing of the metadata is stored
C20_Witness ==
    /\ IsAccountPut(req) /\ res.status = 409
    /\ req.meta = SomeMeta
    /\ db.put_timestamp = Ts(req) /\ db.created_at < db.put_timestamp
    /\ db.put_timestamp < db.delete_timestamp
    /\ db.metadata = EmptyFn

====
